---- MODULE Spec2Model ----
(***************************************************************************)
(* NamespaceClass controller (main.go): the Type Registry built at         *)
(* startup, the Namespace watcher and the Class watcher as two concurrent  *)
(* threads whose every object-store call is one step, and the cluster      *)
(* (namespaces' class labels, Class objects, namespaced objects) as the    *)
(* shared store, written by the operator and by the two watchers.          *)
(***************************************************************************)
EXTENDS Integers, Sequences, FiniteSets, TLC

\* ------------------------------------------------------------------ labels
ClassLabel == "namespaceclass.snowflying.io/name"
ManagedLabel == "namespaceclass.snowflying.io/managed"
OwnerClassLabel == "namespaceclass.snowflying.io/owner"

\* ------------------------------------------------------------------ bounds
\* Number of environment events of a behaviour: operator writes (relabel a
\* namespace, create/modify/delete a Class), store-call failures, watch
\* failures and stream terminations, cancellation.
MaxEnv == 1

\* ------------------------------------------------------------ the universe
\* Namespaces of the cluster, in the order a List returns them.
Namespaces == <<"my-app", "other">>
NamespaceNames == {Namespaces[i] : i \in 1..Len(Namespaces)}
ClassNames == {"secure-network", "public-network"}
\* A namespace without the class label; a Class that does not exist.
NoLabel == "<nolabel>"
Absent == [exists |-> FALSE, hasSpec |-> FALSE, hasResources |-> FALSE, resources |-> <<>>]

NoLabels == <<>>
Labels1(k, v) == [x \in {k} |-> v]

\* apiVersion strings are kept split at "/" : <<"v1">>, <<"networking.k8s.io", "v1">>
CoreV1 == <<"v1">>
NetV1 == <<"networking.k8s.io", "v1">>
RbacV1 == <<"rbac.authorization.k8s.io", "v1">>

Template(apiVersion, kind, name, labels, body) ==
    [isMap |-> TRUE, apiVersion |-> apiVersion, kind |-> kind, name |-> name,
     labels |-> labels, body |-> body]
\* an item of spec.resources that is not a map (a string, a number)
NotAMap ==
    [isMap |-> FALSE, apiVersion |-> <<>>, kind |-> "", name |-> "",
     labels |-> NoLabels, body |-> ""]

DenyAll == Template(NetV1, "NetworkPolicy", "deny-all-ingress", NoLabels, "ingress-v1")
DenyAllV2 == Template(NetV1, "NetworkPolicy", "deny-all-ingress", NoLabels, "ingress-v2")
AppSA ==
    Template(CoreV1, "ServiceAccount", "app-service-account",
             [k \in {"team", ManagedLabel, OwnerClassLabel} |->
                 IF k = "team" THEN "payments"
                 ELSE IF k = ManagedLabel THEN "false" ELSE "somebody-else"], "sa")
AllowPublic == Template(NetV1, "NetworkPolicy", "allow-public-ingress", NoLabels, "public")
\* cluster-scoped kind: never in the registry
Reader == Template(RbacV1, "ClusterRole", "reader", NoLabels, "rules")

ClassDef(resources) ==
    [exists |-> TRUE, hasSpec |-> TRUE, hasResources |-> TRUE, resources |-> resources]
NoResourcesDef ==
    [exists |-> TRUE, hasSpec |-> TRUE, hasResources |-> FALSE, resources |-> <<>>]
NoSpecDef ==
    [exists |-> TRUE, hasSpec |-> FALSE, hasResources |-> FALSE, resources |-> <<>>]

\* The definitions the operator gives each Class.
ClassDefs(c) ==
    IF c = "secure-network"
    THEN {ClassDef(<<DenyAll, AppSA>>),
          ClassDef(<<DenyAllV2, NotAMap, Reader, AppSA>>),
          NoResourcesDef, NoSpecDef}
    ELSE {ClassDef(<<AllowPublic>>), ClassDef(<<AllowPublic, DenyAll>>)}

\* ------------------------------------------------------- the Type Registry
APIResource(name, kind, namespaced, verbs) ==
    [name |-> name, kind |-> kind, namespaced |-> namespaced, verbs |-> verbs]
APIResourceList(groupVersion, apiResources) ==
    [groupVersion |-> groupVersion, apiResources |-> apiResources]

AllVerbs == <<"create", "delete", "get", "list", "watch">>
ServiceAccounts == APIResource("serviceaccounts", "ServiceAccount", TRUE, AllVerbs)
Bindings == APIResource("bindings", "Binding", TRUE, <<"create">>)
Events == APIResource("events", "Event", TRUE, <<"get", "list">>)
NamespacesResource == APIResource("namespaces", "Namespace", FALSE, AllVerbs)
NetworkPolicies == APIResource("networkpolicies", "NetworkPolicy", TRUE, AllVerbs)
ClusterRoles == APIResource("clusterroles", "ClusterRole", FALSE, AllVerbs)

\* What the discovery service of the cluster of Spec answers.
ClusterAPI ==
    [configOk |-> TRUE, err |-> FALSE,
     lists |-> << APIResourceList(CoreV1, <<Bindings, NamespacesResource, ServiceAccounts>>),
                  APIResourceList(NetV1, <<NetworkPolicies>>),
                  APIResourceList(RbacV1, <<ClusterRoles>>) >>]

contains(slice, item) == \E i \in 1..Len(slice) : slice[i] = item

\* schema.ParseGroupVersion on a string split at "/"
ParseGroupVersion(gv) ==
    CASE Len(gv) = 0 -> [ok |-> TRUE, group |-> "", version |-> ""]
      [] Len(gv) = 1 -> [ok |-> TRUE, group |-> "", version |-> gv[1]]
      [] Len(gv) = 2 -> [ok |-> TRUE, group |-> gv[1], version |-> gv[2]]
      [] OTHER -> [ok |-> FALSE, group |-> "", version |-> ""]

GVR(group, version, resource) == [group |-> group, version |-> version, resource |-> resource]
GVK(group, version, kind) == [group |-> group, version |-> version, kind |-> kind]

\* the filter without its test of the delete verb
RetainedIfListed(apiResource) ==
    /\ apiResource.namespaced
    /\ contains(apiResource.verbs, "list")

Retained(apiResource) ==
    /\ apiResource.namespaced
    /\ contains(apiResource.verbs, "list")
    /\ contains(apiResource.verbs, "delete")

\* the (gvk, gvr) pairs one APIResourceList contributes, in order
ListEntries(apiResourceList) ==
    LET gv == ParseGroupVersion(apiResourceList.groupVersion)
        kept == SelectSeq(apiResourceList.apiResources, Retained)
    IN  IF ~gv.ok THEN <<>>
        ELSE [i \in 1..Len(kept) |->
                [gvk |-> GVK(gv.group, gv.version, kept[i].kind),
                 gvr |-> GVR(gv.group, gv.version, kept[i].name)]]

RECURSIVE AllEntries(_)
AllEntries(lists) ==
    IF lists = <<>> THEN <<>>
    ELSE ListEntries(Head(lists)) \o AllEntries(Tail(lists))

\* the discovery recording the kind of every namespaced resource, whatever
\* its verbs
discoverNamespacedResourcesAnyVerbs(response) ==
    LET entries == AllEntries(response.lists)
        pairsOf(l) ==
            LET gv == ParseGroupVersion(l.groupVersion)
            IN  IF ~gv.ok THEN {}
                ELSE {[gvk |-> GVK(gv.group, gv.version, l.apiResources[i].kind),
                       gvr |-> GVR(gv.group, gv.version, l.apiResources[i].name)] :
                         i \in {j \in 1..Len(l.apiResources) : l.apiResources[j].namespaced}}
        pairs == UNION {pairsOf(response.lists[i]) : i \in 1..Len(response.lists)}
        keys == {p.gvk : p \in pairs}
    IN  [err |-> FALSE,
         namespacedGVRs |-> [i \in 1..Len(entries) |-> entries[i].gvr],
         gvkToGVR |-> [k \in keys |-> (CHOOSE p \in pairs : p.gvk = k).gvr]]

\* discoverNamespacedResources: the error of the discovery call is logged
\* and dropped; the registry is built from whatever lists came back.
discoverNamespacedResources(response) ==
    LET entries == AllEntries(response.lists)
        keys == {entries[i].gvk : i \in 1..Len(entries)}
        last(k) == CHOOSE i \in 1..Len(entries) :
                      /\ entries[i].gvk = k
                      /\ \A j \in 1..Len(entries) : entries[j].gvk = k => j <= i
    IN  [err |-> FALSE,
         namespacedGVRs |-> [i \in 1..Len(entries) |-> entries[i].gvr],
         gvkToGVR |-> [k \in keys |-> entries[last(k)].gvr]]

\* What a discovery service can answer: one resource list of one or two
\* resources (of different names), or the core list and a second group's
\* list, with or without an error (an error with no list is the total
\* failure), and whether the client configuration is usable.
VerbSets == {<<>>, <<"list">>, <<"delete">>, <<"delete", "list">>, AllVerbs}
ResourcePool ==
    {APIResource(r[1], r[2], n, v) :
        r \in {<<"serviceaccounts", "ServiceAccount">>, <<"networkpolicies", "NetworkPolicy">>},
        n \in BOOLEAN, v \in VerbSets}
GroupVersions == {CoreV1, NetV1, <<"a", "b", "c">>}
SmallLists == {APIResourceList(gv, <<r>>) : gv \in GroupVersions, r \in ResourcePool}
PairLists ==
    {APIResourceList(gv, <<r, q>>) :
        gv \in GroupVersions,
        r \in {x \in ResourcePool : x.name = "serviceaccounts"},
        q \in {x \in ResourcePool : x.name = "networkpolicies"}}
DiscoveryResponses ==
    {[configOk |-> c, err |-> e, lists |-> ls] :
        c \in BOOLEAN, e \in BOOLEAN,
        ls \in {<<>>} \cup {<<l>> : l \in SmallLists \cup PairLists}
                \cup {<<l, m>> : l \in {APIResourceList(CoreV1, <<ServiceAccounts>>)},
                                m \in {x \in SmallLists : x.groupVersion = NetV1}}}

EmptyRegistry == [namespacedGVRs |-> <<>>, gvkToGVR |-> <<>>]

\* -------------------------------------------------------------------- state
VARIABLES
    discovery,   \* what the cluster's discovery service answers
    mainPc,      \* main / NewController / Run: "main", "constructed", "fatal", "running", "returned"
    registry,    \* Controller.namespacedGVRs and Controller.gvkToGVR
    cancelled,   \* ctx.Done() of the context passed to Run
    nsLabels,    \* namespace -> value of its class label, or NoLabel
    classes,     \* Class name -> its definition, or Absent
    objects,     \* the namespaced objects of the store
    stream,      \* per watcher: the watch stream (open, undelivered events)
    th,          \* per watcher: position and locals of the goroutine
    raced,       \* per watcher: the other watcher wrote to the namespace it is reconciling
    env,         \* environment events so far
    faults       \* of these, the store calls that failed

vars == <<discovery, mainPc, registry, cancelled, nsLabels, classes, objects, stream, th, raced,
          env, faults>>

Watchers == {"ns", "cls"}

\* ---------------------------------------------------------------- the store
Object(ns, gvr, name, labels, body) ==
    [ns |-> ns, gvr |-> gvr, name |-> name, labels |-> labels, body |-> body]

\* object names, in the order a List returns them
NameOrder == <<"allow-public-ingress", "app-service-account", "default", "deny-all-ingress">>

HasLabel(labels, k, v) == k \in DOMAIN labels /\ labels[k] = v

\* the label selector of cleanupResources: managed=true[,owner=className]
Selected(labels, className) ==
    /\ HasLabel(labels, ManagedLabel, "true")
    /\ className # "" => HasLabel(labels, OwnerClassLabel, className)

Managed(o) == HasLabel(o.labels, ManagedLabel, "true")
ManagedIn(objs, ns) == {o \in objs : o.ns = ns /\ Managed(o)}

At(objs, ns, gvr, name) == {o \in objs : o.ns = ns /\ o.gvr = gvr /\ o.name = name}

\* List(gvr).Namespace(ns) with the selector: the names of the matching objects
ListNames(objs, ns, gvr, className) ==
    SelectSeq(NameOrder,
              LAMBDA n : \E o \in At(objs, ns, gvr, n) : Selected(o.labels, className))

\* the list without its label selector
NamespacesUnselected(labels, className) == Namespaces

\* Namespaces().List with the selector name=className
NamespacesWithClass(labels, className) ==
    SelectSeq(Namespaces, LAMBDA n : labels[n] = className)

\* every namespace has the ServiceAccount "default", which nobody manages
DefaultObjects ==
    {Object(n, GVR("", "v1", "serviceaccounts"), "default", NoLabels, "sa") : n \in NamespaceNames}

\* ------------------------------------------------------------ watch events
Event(type, name, label) == [type |-> type, name |-> name, label |-> label]
NoEvent == Event("", "", "")
ClosedStream == [open |-> FALSE, queue |-> <<>>]

\* a watch that starts with the first existing object only
InitialEventsFirstOnly(w) ==
    IF w = "ns"
    THEN <<Event("ADDED", Namespaces[1], nsLabels[Namespaces[1]])>>
    ELSE LET names == SelectSeq(<<"public-network", "secure-network">>,
                                LAMBDA c : classes[c] # Absent)
         IN  [i \in 1..Len(names) |-> Event("ADDED", names[i], "")]

\* the synthetic ADDED events a new watch starts with
InitialEvents(w) ==
    IF w = "ns"
    THEN [i \in 1..Len(Namespaces) |-> Event("ADDED", Namespaces[i], nsLabels[Namespaces[i]])]
    ELSE LET names == SelectSeq(<<"public-network", "secure-network">>,
                                LAMBDA c : classes[c] # Absent)
         IN  [i \in 1..Len(names) |-> Event("ADDED", names[i], "")]

Deliver(w, e) ==
    IF stream[w].open
    THEN [stream EXCEPT ![w].queue = Append(@, e)]
    ELSE stream

\* ------------------------------------------------------ goroutine locals
NoClass == Absent

Idle(pc) ==
    [pc |-> pc,
     ev |-> NoEvent,        \* the event being handled
     className |-> "",      \* className of handleNamespace / of the Class event
     class |-> NoClass,     \* the Class as fetched by getClass
     fetched |-> FALSE,
     loop |-> "none",       \* "update" / "cleanup": inside the loop over namespaces.Items
     namespaces |-> <<>>,   \* namespaces.Items
     nsIdx |-> 0,
     nsName |-> "",         \* the namespace being reconciled
     filter |-> "",         \* className of cleanupResources
     ret |-> "",            \* who called cleanupResources
     gvrIdx |-> 0,
     items |-> <<>>,        \* list.Items still to delete
     deletedCount |-> 0,
     resources |-> <<>>,    \* resources of applyClass
     resIdx |-> 0,
     successCount |-> 0,
     log |-> <<>>,          \* outcome of each createResource of the current applyClass
     pre |-> {},            \* the managed objects of the event's namespace when it was taken
     errs |-> FALSE]        \* some call of this event returned an error

\* ------------------------------------------- control flow of one goroutine
\* These operators take the locals after a call returned and run the code up
\* to the next object-store call (or to the end of the event's handling).

getResourcesFromClass(class) ==
    IF ~class.hasSpec \/ ~class.hasResources
    THEN [err |-> TRUE, resources |-> <<>>]
    ELSE [err |-> FALSE, resources |-> SelectSeq(class.resources, LAMBDA r : r.isMap)]

\* the handler returned: back at `for event := range watcher.ResultChan()`
\* (the locals of the event just handled stay readable until the next event)
Handled(t) == [t EXCEPT !.pc = "streaming"]

RECURSIVE CleanupAdvance(_), AfterCleanup(_), ApplyPhase2(_), CreateAdvance(_)
RECURSIVE AfterApply(_), NextNamespace(_), StartCleanup(_, _, _, _), applyClass(_, _)

\* cleanupResources(nsName, className) entered from `ret`
StartCleanup(t, nsName, className, ret) ==
    CleanupAdvance([t EXCEPT !.nsName = nsName, !.filter = className, !.ret = ret,
                             !.gvrIdx = 1, !.items = <<>>, !.deletedCount = 0])

\* the scan leaving after the first resource type
CleanupAdvanceFirstTypeOnly(t) ==
    IF t.gvrIdx > 1 \/ t.gvrIdx > Len(registry.namespacedGVRs)
    THEN AfterCleanup(t)
    ELSE [t EXCEPT !.pc = "list"]

\* top of `for _, gvr := range c.namespacedGVRs`
CleanupAdvance(t) ==
    IF t.gvrIdx > Len(registry.namespacedGVRs)
    THEN AfterCleanup(t)
    ELSE [t EXCEPT !.pc = "list"]

AfterCleanup(t) ==
    CASE t.ret = "handleNamespace" -> Handled(t)
      [] t.ret = "applyClass" -> ApplyPhase2(t)
      [] t.ret = "cleanupNamespacesWithClass" -> NextNamespace(t)

\* (mutant) Phase 1 purges only what the Class being applied owns
applyClassOwnPurge(t, nsName) ==
    StartCleanup([t EXCEPT !.resources = <<>>, !.resIdx = 0, !.successCount = 0, !.log = <<>>],
                 nsName, t.className, "applyClass")

\* applyClass extracting the templates first, and purging only if it can
applyClassExtractFirst(t, nsName) ==
    IF getResourcesFromClass(t.class).err
    THEN AfterApply([t EXCEPT !.nsName = nsName, !.errs = TRUE,
                              !.resources = <<>>, !.resIdx = 0, !.successCount = 0, !.log = <<>>])
    ELSE StartCleanup([t EXCEPT !.resources = <<>>, !.resIdx = 0, !.successCount = 0, !.log = <<>>],
                      nsName, "", "applyClass")

\* applyClass leaving alone a target that holds managed objects already
applyClassUnlessProvisioned(t, nsName) ==
    IF ManagedIn(objects, nsName) # {}
    THEN AfterApply([t EXCEPT !.nsName = nsName,
                              !.resources = <<>>, !.resIdx = 0, !.successCount = 0, !.log = <<>>])
    ELSE StartCleanup([t EXCEPT !.resources = <<>>, !.resIdx = 0, !.successCount = 0, !.log = <<>>],
                      nsName, "", "applyClass")

\* applyClass: Phase 1
applyClass(t, nsName) ==
    StartCleanup([t EXCEPT !.resources = <<>>, !.resIdx = 0, !.successCount = 0, !.log = <<>>],
                 nsName, "", "applyClass")

\* applyClass: Phase 2
ApplyPhase2(t) ==
    LET r == getResourcesFromClass(t.class)
    IN  IF r.err
        THEN AfterApply([t EXCEPT !.errs = TRUE])
        ELSE CreateAdvance([t EXCEPT !.resources = r.resources, !.resIdx = 1])

\* the loop over resources returning at the first failed item
CreateAdvanceAbortOnError(t) ==
    IF t.resIdx > Len(t.resources) \/ (t.log # <<>> /\ t.log[Len(t.log)].err # "")
    THEN AfterApply(t)
    ELSE [t EXCEPT !.pc = "create"]

\* applyClass: top of `for i, resource := range resources`
CreateAdvance(t) ==
    IF t.resIdx > Len(t.resources)
    THEN AfterApply(t)
    ELSE [t EXCEPT !.pc = "create"]

AfterApply(t) ==
    IF t.loop = "none" THEN Handled(t) ELSE NextNamespace(t)

\* top of `for _, ns := range namespaces.Items`
\* the loop over namespaces.Items leaving after its first item
NextNamespaceFirstOnly(t) ==
    LET i == t.nsIdx + 1
        u == [t EXCEPT !.nsIdx = i]
    IN  IF i > 1 \/ i > Len(t.namespaces) THEN Handled(u)
        ELSE IF t.loop = "update" THEN applyClass(u, t.namespaces[i])
        ELSE StartCleanup(u, t.namespaces[i], t.className, "cleanupNamespacesWithClass")

NextNamespace(t) ==
    LET i == t.nsIdx + 1
        u == [t EXCEPT !.nsIdx = i]
    IN  IF i > Len(t.namespaces) THEN Handled(u)
        ELSE IF t.loop = "update" THEN applyClass(u, t.namespaces[i])
        ELSE StartCleanup(u, t.namespaces[i], t.className, "cleanupNamespacesWithClass")

\* (mutant) a namespace without the label is left alone
handleNamespaceNoCleanup(t, ns) ==
    IF ns.label = NoLabel
    THEN Handled([t EXCEPT !.nsName = ns.name])
    ELSE [t EXCEPT !.className = ns.label, !.nsName = ns.name, !.pc = "getClass"]

\* handleNamespace up to its first call
handleNamespace(t, ns) ==
    IF ns.label = NoLabel
    THEN StartCleanup(t, ns.name, "", "handleNamespace")
    ELSE [t EXCEPT !.className = ns.label, !.nsName = ns.name, !.pc = "getClass"]

\* the `switch event.Type` of watchNamespaces
watchNamespacesDispatch(e, managed) ==
    LET t == [Idle("streaming") EXCEPT !.ev = e, !.pre = managed]
    IN  IF e.type \in {"ADDED", "MODIFIED"} THEN handleNamespace(t, e) ELSE Handled(t)

\* the `switch event.Type` of watchClasses, up to the first call of
\* updateNamespacesWithClass / cleanupNamespacesWithClass
watchClassesDispatch(e) ==
    LET t == [Idle("streaming") EXCEPT !.ev = e, !.className = e.name]
    IN  CASE e.type = "MODIFIED" -> [t EXCEPT !.loop = "update", !.pc = "listNamespaces"]
          [] e.type = "DELETED" -> [t EXCEPT !.loop = "cleanup", !.pc = "listNamespaces"]
          [] OTHER -> Handled(t)

\* ------------------------------------------------------------------ startup
\* what an earlier run of the controller left in the namespaces of
\* InitCluster's third case
Leftovers ==
    LET own(c) == [k \in {ManagedLabel, OwnerClassLabel} |->
                      IF k = ManagedLabel THEN "true" ELSE c]
    IN  { Object("my-app", GVR("networking.k8s.io", "v1", "networkpolicies"),
                 "deny-all-ingress", own("secure-network"), "ingress-v1"),
          Object("my-app", GVR("", "v1", "serviceaccounts"), "app-service-account",
                 [k \in {"team", ManagedLabel, OwnerClassLabel} |->
                     IF k = "team" THEN "payments"
                     ELSE IF k = ManagedLabel THEN "true" ELSE "secure-network"], "sa"),
          Object("other", GVR("networking.k8s.io", "v1", "networkpolicies"),
                 "allow-public-ingress", own("public-network"), "public") }

\* The cluster the controller is started in. my-app is labeled
\* secure-network, a Class that may not exist yet; the other namespace is
\* labeled with either Class; nothing is managed yet, or (third case) the
\* controller is restarted in a cluster an earlier run has reconciled.
InitCluster ==
    \/ /\ \E v \in ClassNames :
             nsLabels = [n \in NamespaceNames |-> IF n = "my-app" THEN "secure-network" ELSE v]
       /\ \E d \in {Absent, ClassDef(<<DenyAll, AppSA>>)} :
             classes = [c \in ClassNames |->
                           IF c = "secure-network" THEN d ELSE ClassDef(<<AllowPublic>>)]
       /\ objects = DefaultObjects
    \/ /\ nsLabels = [n \in NamespaceNames |->
                         IF n = "my-app" THEN "secure-network" ELSE "public-network"]
       /\ classes = [c \in ClassNames |->
                        IF c = "secure-network" THEN ClassDef(<<DenyAll, AppSA>>)
                        ELSE ClassDef(<<AllowPublic>>)]
       /\ objects = DefaultObjects \cup Leftovers

InitProcess ==
    /\ mainPc = "main"
    /\ registry = EmptyRegistry
    /\ cancelled = FALSE
    /\ stream = [w \in Watchers |-> ClosedStream]
    /\ th = [w \in Watchers |-> Idle("off")]
    /\ raced = [w \in Watchers |-> FALSE]
    /\ env = 0
    /\ faults = 0

Init ==
    /\ discovery = ClusterAPI
    /\ InitCluster
    /\ InitProcess

\* main -> NewController: the clients, then discovery
NewController ==
    /\ mainPc = "main"
    /\ LET r == discoverNamespacedResources(discovery)
       IN  IF ~discovery.configOk \/ r.err
           THEN /\ mainPc' = "fatal"
                /\ UNCHANGED registry
           ELSE /\ mainPc' = "constructed"
                /\ registry' = [namespacedGVRs |-> r.namespacedGVRs, gvkToGVR |-> r.gvkToGVR]
    /\ UNCHANGED <<discovery, cancelled, nsLabels, classes, objects, stream, th, raced, env, faults>>

\* Run: go c.watchNamespaces(ctx); go c.watchClasses(ctx)
Run ==
    /\ mainPc = "constructed"
    /\ mainPc' = "running"
    /\ th' = [w \in Watchers |-> Idle("connecting")]
    /\ UNCHANGED <<discovery, registry, cancelled, nsLabels, classes, objects, stream, raced, env, faults>>

\* Run: <-ctx.Done(); return nil
RunReturn ==
    /\ mainPc = "running"
    /\ cancelled
    /\ mainPc' = "returned"
    /\ UNCHANGED <<discovery, registry, cancelled, nsLabels, classes, objects, stream, th, raced, env, faults>>

\* ------------------------------------------------------------ store calls
\* A call made with a cancelled context fails; any other call may fail while
\* the environment has events left.
CallResults == IF cancelled THEN {FALSE} ELSE IF env < MaxEnv THEN {TRUE, FALSE} ELSE {TRUE}
Charge(ok) == IF ~ok /\ ~cancelled THEN env + 1 ELSE env
Failed(ok) == IF ~ok /\ ~cancelled THEN faults + 1 ELSE faults

Other(w) == IF w = "ns" THEN "cls" ELSE "ns"
Range(seq) == {seq[i] : i \in 1..Len(seq)}

\* the namespaces the event being handled by t is reconciling
Scope(t) ==
    IF t.loop = "none"
    THEN IF t.nsName = "" THEN {} ELSE {t.nsName}
    ELSE Range(t.namespaces)

\* w wrote to namespace n
Wrote(w, n) ==
    IF n \in Scope(th[Other(w)]) THEN [raced EXCEPT ![Other(w)] = TRUE] ELSE raced

\* ------------------------------------------------------------ the watchers
\* Watch(ctx, ListOptions{}) of watchNamespaces / watchClasses
Connect(w) ==
    /\ th[w].pc = "connecting"
    /\ \E ok \in CallResults :
          /\ IF ok
             THEN /\ stream' = [stream EXCEPT ![w] = [open |-> TRUE, queue |-> InitialEvents(w)]]
                  /\ th' = [th EXCEPT ![w].pc = "streaming"]
             ELSE /\ th' = [th EXCEPT ![w].pc = "backoff"]
                  /\ UNCHANGED stream
          /\ env' = Charge(ok)
          /\ faults' = Failed(ok)
    /\ UNCHANGED <<discovery, mainPc, registry, cancelled, nsLabels, classes, objects, raced>>

\* the watcher returning after a failed Watch instead of retrying
AfterBackoffGivingUp == "exited"

\* time.Sleep(5 * time.Second); continue
AfterBackoff == "connecting"
Backoff(w) ==
    /\ th[w].pc = "backoff"
    /\ th' = [th EXCEPT ![w].pc = AfterBackoff]
    /\ UNCHANGED <<discovery, mainPc, registry, cancelled, nsLabels, classes, objects, stream, raced, env, faults>>

\* `for event := range watcher.ResultChan()` ends: the channel was closed
StreamEnd(w) ==
    /\ th[w].pc = "streaming"
    /\ ~stream[w].open
    /\ th' = [th EXCEPT ![w] = Idle("reconnect")]
    /\ raced' = [raced EXCEPT ![w] = FALSE]
    /\ UNCHANGED <<discovery, mainPc, registry, cancelled, nsLabels, classes, objects, stream, env, faults>>

\* time.Sleep(time.Second), then the top of `for {`
AfterStreamEnd == "connecting"
Reconnect(w) ==
    /\ th[w].pc = "reconnect"
    /\ th' = [th EXCEPT ![w].pc = AfterStreamEnd]
    /\ UNCHANGED <<discovery, mainPc, registry, cancelled, nsLabels, classes, objects, stream, raced, env, faults>>

\* the next event taken while the handler of the previous one still runs
TakeWhileHandling(w) ==
    /\ th[w].pc \notin {"off", "connecting", "backoff", "reconnect", "exited"}
    /\ stream[w].queue # <<>>
    /\ LET e == Head(stream[w].queue)
       IN  th' = [th EXCEPT ![w] = IF w = "ns"
                                   THEN watchNamespacesDispatch(e, ManagedIn(objects, e.name))
                                   ELSE watchClassesDispatch(e)]
    /\ stream' = [stream EXCEPT ![w].queue = Tail(@)]
    /\ raced' = [raced EXCEPT ![w] = FALSE]
    /\ UNCHANGED <<discovery, mainPc, registry, cancelled, nsLabels, classes, objects, env, faults>>

\* the next event of the stream, and its handler up to the first store call
Take(w) ==
    /\ th[w].pc = "streaming"
    /\ stream[w].queue # <<>>
    /\ LET e == Head(stream[w].queue)
       IN  th' = [th EXCEPT ![w] = IF w = "ns"
                                   THEN watchNamespacesDispatch(e, ManagedIn(objects, e.name))
                                   ELSE watchClassesDispatch(e)]
    /\ stream' = [stream EXCEPT ![w].queue = Tail(@)]
    /\ raced' = [raced EXCEPT ![w] = FALSE]
    /\ UNCHANGED <<discovery, mainPc, registry, cancelled, nsLabels, classes, objects, env, faults>>

\* getClass whose error is not checked: the caller goes on with the empty Class
GetClassUnchecked(w) ==
    /\ th[w].pc = "getClass"
    /\ \E ok \in CallResults :
          LET t == th[w]
              found == ok /\ classes[t.className] # Absent
              u == [t EXCEPT !.class = IF found THEN classes[t.className] ELSE NoClass,
                             !.fetched = found, !.errs = @ \/ ~found]
          IN  /\ th' = [th EXCEPT ![w] =
                          IF t.loop = "none" THEN applyClass(u, t.nsName)
                          ELSE NextNamespace(u)]
              /\ env' = Charge(ok)
              /\ faults' = Failed(ok)
    /\ UNCHANGED <<discovery, mainPc, registry, cancelled, nsLabels, classes, objects, stream, raced>>

\* getClass, called by handleNamespace or by updateNamespacesWithClass
GetClass(w) ==
    /\ th[w].pc = "getClass"
    /\ \E ok \in CallResults :
          LET t == th[w]
              found == ok /\ classes[t.className] # Absent
              u == [t EXCEPT !.class = classes[t.className], !.fetched = TRUE]
          IN  /\ th' = [th EXCEPT ![w] =
                          IF ~found THEN Handled([t EXCEPT !.errs = TRUE])
                          ELSE IF t.loop = "none" THEN applyClass(u, t.nsName)
                          ELSE NextNamespace(u)]
              /\ env' = Charge(ok)
              /\ faults' = Failed(ok)
    /\ UNCHANGED <<discovery, mainPc, registry, cancelled, nsLabels, classes, objects, stream, raced>>

\* Namespaces().List of updateNamespacesWithClass / cleanupNamespacesWithClass
ListNamespaces(w) ==
    /\ th[w].pc = "listNamespaces"
    /\ \E ok \in CallResults :
          LET t == th[w]
              u == [t EXCEPT !.namespaces = NamespacesWithClass(nsLabels, t.className)]
          IN  /\ th' = [th EXCEPT ![w] =
                          IF ~ok THEN Handled([t EXCEPT !.errs = TRUE])
                          ELSE IF t.loop = "update" THEN [u EXCEPT !.pc = "getClass"]
                          ELSE NextNamespace(u)]
              /\ env' = Charge(ok)
              /\ faults' = Failed(ok)
    /\ UNCHANGED <<discovery, mainPc, registry, cancelled, nsLabels, classes, objects, stream, raced>>

\* the scan returning at the first failed List
CleanupListAbortOnError(w) ==
    /\ th[w].pc = "list"
    /\ \E ok \in CallResults :
          LET t == th[w]
              gvr == registry.namespacedGVRs[t.gvrIdx]
              items == ListNames(objects, t.nsName, gvr, t.filter)
          IN  /\ th' = [th EXCEPT ![w] =
                          IF ~ok THEN AfterCleanup([t EXCEPT !.errs = TRUE])
                          ELSE IF items = <<>> THEN CleanupAdvance([t EXCEPT !.gvrIdx = @ + 1])
                          ELSE [t EXCEPT !.items = items, !.pc = "delete"]]
              /\ env' = Charge(ok)
              /\ faults' = Failed(ok)
    /\ UNCHANGED <<discovery, mainPc, registry, cancelled, nsLabels, classes, objects, stream, raced>>

\* cleanupResources: List of one resource type
CleanupList(w) ==
    /\ th[w].pc = "list"
    /\ \E ok \in CallResults :
          LET t == th[w]
              gvr == registry.namespacedGVRs[t.gvrIdx]
              items == ListNames(objects, t.nsName, gvr, t.filter)
          IN  /\ th' = [th EXCEPT ![w] =
                          IF ~ok THEN CleanupAdvance([t EXCEPT !.gvrIdx = @ + 1, !.errs = TRUE])
                          ELSE IF items = <<>> THEN CleanupAdvance([t EXCEPT !.gvrIdx = @ + 1])
                          ELSE [t EXCEPT !.items = items, !.pc = "delete"]]
              /\ env' = Charge(ok)
              /\ faults' = Failed(ok)
    /\ UNCHANGED <<discovery, mainPc, registry, cancelled, nsLabels, classes, objects, stream, raced>>

\* cleanupResources: Delete of one listed item, by name
CleanupDelete(w) ==
    /\ th[w].pc = "delete"
    /\ \E ok \in CallResults :
          LET t == th[w]
              gvr == registry.namespacedGVRs[t.gvrIdx]
              found == At(objects, t.nsName, gvr, Head(t.items))
              deleted == ok /\ found # {}
              u == [t EXCEPT !.items = Tail(@),
                             !.deletedCount = IF deleted THEN @ + 1 ELSE @,
                             !.errs = @ \/ ~deleted]
          IN  /\ objects' = IF deleted THEN objects \ found ELSE objects
              /\ raced' = IF deleted THEN Wrote(w, t.nsName) ELSE raced
              /\ th' = [th EXCEPT ![w] =
                          IF u.items = <<>> THEN CleanupAdvance([u EXCEPT !.gvrIdx = @ + 1])
                          ELSE u]
              /\ env' = Charge(ok)
              /\ faults' = Failed(ok)
    /\ UNCHANGED <<discovery, mainPc, registry, cancelled, nsLabels, classes, stream>>

\* resource.GroupVersionKind(): apiVersion parsed, or the kind alone
GroupVersionKind(resource) ==
    LET gv == ParseGroupVersion(resource.apiVersion)
    IN  IF gv.ok THEN GVK(gv.group, gv.version, resource.kind) ELSE GVK("", "", resource.kind)

\* the merge letting a label of the template win over the owner label
MergeLabelsKeepingTemplate(labels, className) ==
    [k \in DOMAIN labels \cup {ManagedLabel, OwnerClassLabel} |->
        IF k \in DOMAIN labels THEN labels[k]
        ELSE IF k = ManagedLabel THEN "true" ELSE className]

\* labels[ManagedLabel] = "true"; labels[OwnerClassLabel] = className
MergeLabels(labels, className) ==
    [k \in DOMAIN labels \cup {ManagedLabel, OwnerClassLabel} |->
        IF k = ManagedLabel THEN "true"
        ELSE IF k = OwnerClassLabel THEN className
        ELSE labels[k]]

Resolvable(resource) == GroupVersionKind(resource) \in DOMAIN registry.gvkToGVR

\* createResource writing over an object that is already there
createResourceReplacing(objs, nsName, className, resource, ok) ==
    LET gvk == GroupVersionKind(resource)
        made(gvr) == Object(nsName, gvr, resource.name,
                            MergeLabels(resource.labels, className), resource.body)
    IN  IF gvk \notin DOMAIN registry.gvkToGVR
        THEN [err |-> "unknown resource type", called |-> FALSE, objects |-> objs]
        ELSE IF ~ok
        THEN [err |-> "create failed", called |-> TRUE, objects |-> objs]
        ELSE [err |-> "", called |-> TRUE,
              objects |-> (objs \ At(objs, nsName, registry.gvkToGVR[gvk], resource.name))
                             \cup {made(registry.gvkToGVR[gvk])}]

\* createResource without its SetLabels
createResourceAsTemplate(objs, nsName, className, resource, ok) ==
    LET gvk == GroupVersionKind(resource)
        made(gvr) == Object(nsName, gvr, resource.name, resource.labels, resource.body)
    IN  IF gvk \notin DOMAIN registry.gvkToGVR
        THEN [err |-> "unknown resource type", called |-> FALSE, objects |-> objs]
        ELSE IF ~ok
        THEN [err |-> "create failed", called |-> TRUE, objects |-> objs]
        ELSE IF At(objs, nsName, registry.gvkToGVR[gvk], resource.name) # {}
        THEN [err |-> "already exists", called |-> TRUE, objects |-> objs]
        ELSE [err |-> "", called |-> TRUE, objects |-> objs \cup {made(registry.gvkToGVR[gvk])}]

\* createResource; `ok` is whether the store accepts the Create call
createResource(objs, nsName, className, resource, ok) ==
    LET gvk == GroupVersionKind(resource)
        made(gvr) == Object(nsName, gvr, resource.name,
                            MergeLabels(resource.labels, className), resource.body)
    IN  IF gvk \notin DOMAIN registry.gvkToGVR
        THEN [err |-> "unknown resource type", called |-> FALSE, objects |-> objs]
        ELSE IF ~ok
        THEN [err |-> "create failed", called |-> TRUE, objects |-> objs]
        ELSE IF At(objs, nsName, registry.gvkToGVR[gvk], resource.name) # {}
        THEN [err |-> "already exists", called |-> TRUE, objects |-> objs]
        ELSE [err |-> "", called |-> TRUE, objects |-> objs \cup {made(registry.gvkToGVR[gvk])}]

\* applyClass: one turn of `for i, resource := range resources`
Create(w) ==
    /\ th[w].pc = "create"
    /\ LET t == th[w]
           resource == t.resources[t.resIdx]
       IN  \E ok \in IF Resolvable(resource) THEN CallResults ELSE {TRUE} :
              LET r == createResource(objects, t.nsName, t.className, resource, ok)
                  u == [t EXCEPT !.resIdx = @ + 1,
                                 !.successCount = IF r.err = "" THEN @ + 1 ELSE @,
                                 !.errs = @ \/ r.err # "",
                                 !.log = Append(@, [kind |-> resource.kind, name |-> resource.name,
                                                    err |-> r.err, called |-> r.called])]
              IN  /\ objects' = r.objects
                  /\ raced' = IF r.err = "" THEN Wrote(w, t.nsName) ELSE raced
                  /\ th' = [th EXCEPT ![w] = CreateAdvance(u)]
                  /\ env' = Charge(ok)
                  /\ faults' = Failed(ok)
    /\ UNCHANGED <<discovery, mainPc, registry, cancelled, nsLabels, classes, stream>>

\* ---------------------------------------------------------- the environment
EnvCanAct == mainPc = "running" /\ ~cancelled /\ env < MaxEnv

\* kubectl label namespace n name=v / name-
SetLabel(n, v) ==
    /\ EnvCanAct
    /\ nsLabels[n] # v
    /\ nsLabels' = [nsLabels EXCEPT ![n] = v]
    /\ stream' = Deliver("ns", Event("MODIFIED", n, v))
    /\ env' = env + 1
    /\ UNCHANGED <<discovery, mainPc, registry, cancelled, classes, objects, th, raced, faults>>

\* kubectl apply / edit of a Class
PutClass(c, d) ==
    /\ EnvCanAct
    /\ classes[c] # d
    /\ classes' = [classes EXCEPT ![c] = d]
    /\ stream' = Deliver("cls", Event(IF classes[c] = Absent THEN "ADDED" ELSE "MODIFIED", c, ""))
    /\ env' = env + 1
    /\ UNCHANGED <<discovery, mainPc, registry, cancelled, nsLabels, objects, th, raced, faults>>

\* kubectl delete of a Class
DeleteClass(c) ==
    /\ EnvCanAct
    /\ classes[c] # Absent
    /\ classes' = [classes EXCEPT ![c] = Absent]
    /\ stream' = Deliver("cls", Event("DELETED", c, ""))
    /\ env' = env + 1
    /\ UNCHANGED <<discovery, mainPc, registry, cancelled, nsLabels, objects, th, raced, faults>>

\* the server ends a watch stream; what it had not delivered is lost
Disconnect(w) ==
    /\ EnvCanAct
    /\ stream[w].open
    /\ stream' = [stream EXCEPT ![w] = ClosedStream]
    /\ env' = env + 1
    /\ UNCHANGED <<discovery, mainPc, registry, cancelled, nsLabels, classes, objects, th, raced, faults>>

\* The context passed to Run is cancelled; open watches end with it. main
\* passes context.Background(), which nobody cancels: the caller here is any
\* other user of Run, and it stays alive after Run has returned.
Cancel ==
    /\ EnvCanAct
    /\ cancelled' = TRUE
    /\ stream' = [w \in Watchers |-> ClosedStream]
    /\ env' = env + 1
    /\ UNCHANGED <<discovery, mainPc, registry, nsLabels, classes, objects, th, raced, faults>>

\* ------------------------------------------------------------ specification
WatcherStep(w) ==
    \/ Connect(w)
    \/ Backoff(w)
    \/ StreamEnd(w)
    \/ Reconnect(w)
    \/ Take(w)
    \/ GetClass(w)
    \/ ListNamespaces(w)
    \/ CleanupList(w)
    \/ CleanupDelete(w)
    \/ Create(w)

\* the namespaces the operator relabels; the others keep their label
Relabeled == NamespaceNames
\* the Classes the operator creates, edits and deletes
Edited == ClassNames

Operator ==
    \/ \E n \in Relabeled, v \in {NoLabel} \cup ClassNames : SetLabel(n, v)
    \/ \E c \in Edited : \E d \in ClassDefs(c) : PutClass(c, d)
    \/ \E c \in Edited : DeleteClass(c)

Next ==
    \/ NewController
    \/ Run
    \/ RunReturn
    \/ \E w \in Watchers : WatcherStep(w)
    \/ Operator
    \/ \E w \in Watchers : Disconnect(w)
    \/ Cancel

Spec == Init /\ [][Next]_vars

\* Startup alone, against every answer of the discovery service.
StartInit ==
    /\ discovery \in DiscoveryResponses
    /\ InitCluster
    /\ InitProcess

StartNext ==
    \/ NewController
    \/ Run

StartSpec == StartInit /\ [][StartNext]_vars

\* The controller started in a cluster that no longer changes and whose
\* calls succeed: any labels, any Class definitions, and managed objects left
\* behind by whatever happened before.
StaleObjects ==
    LET own(c) == [k \in {ManagedLabel, OwnerClassLabel} |->
                      IF k = ManagedLabel THEN "true" ELSE c]
    IN  { Object("my-app", GVR("networking.k8s.io", "v1", "networkpolicies"),
                 "deny-all-ingress", own("public-network"), "ingress-v1"),
          Object("my-app", GVR("networking.k8s.io", "v1", "networkpolicies"),
                 "allow-public-ingress", own("secure-network"), "stale"),
          Object("other", GVR("", "v1", "serviceaccounts"),
                 "app-service-account", own("secure-network"), "sa") }

StableInit ==
    /\ discovery = ClusterAPI
    /\ nsLabels \in [NamespaceNames -> {NoLabel} \cup ClassNames]
    /\ classes \in {f \in [ClassNames -> {Absent} \cup UNION {ClassDefs(c) : c \in ClassNames}] :
                       \A c \in ClassNames : f[c] \in {Absent} \cup ClassDefs(c)}
    /\ objects \in {DefaultObjects \cup s : s \in SUBSET StaleObjects}
    /\ mainPc = "main"
    /\ registry = EmptyRegistry
    /\ cancelled = FALSE
    /\ stream = [w \in Watchers |-> ClosedStream]
    /\ th = [w \in Watchers |-> Idle("off")]
    /\ raced = [w \in Watchers |-> FALSE]
    /\ env = MaxEnv
    /\ faults = 0

StableNext ==
    \/ NewController
    \/ Run
    \/ \E w \in Watchers :
          \/ Connect(w)
          \/ Take(w)
          \/ GetClass(w)
          \/ CleanupList(w)
          \/ CleanupDelete(w)
          \/ Create(w)

StableSpec ==
    /\ StableInit
    /\ [][StableNext]_vars
    /\ WF_vars(NewController \/ Run)
    /\ \A w \in Watchers : WF_vars(WatcherStep(w))

\* The two watchers against an operator who relabels namespaces, edits and
\* deletes Classes, in a cluster where both Classes declare deny-all-ingress; this
\* scenario has one environment event more than Spec.
RaceInit ==
    /\ discovery = ClusterAPI
    /\ nsLabels = [n \in NamespaceNames |->
                      IF n = "my-app" THEN "secure-network" ELSE "public-network"]
    /\ classes = [c \in ClassNames |->
                     IF c = "secure-network" THEN ClassDef(<<DenyAll, AppSA>>)
                     ELSE ClassDef(<<AllowPublic, DenyAll>>)]
    /\ objects = DefaultObjects
    /\ mainPc = "main"
    /\ registry = EmptyRegistry
    /\ cancelled = FALSE
    /\ stream = [w \in Watchers |-> ClosedStream]
    /\ th = [w \in Watchers |-> Idle("off")]
    /\ raced = [w \in Watchers |-> FALSE]
    /\ env = -1
    /\ faults = 0

RaceNext ==
    \/ NewController
    \/ Run
    \/ \E w \in Watchers :
          \/ Connect(w)
          \/ Backoff(w)
          \/ Take(w)
          \/ GetClass(w)
          \/ ListNamespaces(w)
          \/ CleanupList(w)
          \/ CleanupDelete(w)
          \/ Create(w)
    \/ \E n \in Relabeled, v \in {NoLabel} \cup ClassNames : SetLabel(n, v)
    \/ \E c \in Edited : \E d \in ClassDefs(c) : PutClass(c, d)
    \/ \E c \in Edited : DeleteClass(c)

RaceSpec == RaceInit /\ [][RaceNext]_vars

\* the Go scheduler runs every goroutine that can run
FairSpec == Spec /\ \A w \in Watchers : WF_vars(WatcherStep(w))

\* =================================================================== claims
\* What the claims expect, written from the documentation: the plural
\* resource of each kind the cluster of Spec can hold in a namespace, and the
\* objects a Class declares for a target.
PluralOf(kind) ==
    IF kind = "NetworkPolicy" THEN GVR("networking.k8s.io", "v1", "networkpolicies")
    ELSE GVR("", "v1", "serviceaccounts")
Creatable == {"NetworkPolicy", "ServiceAccount"}

ExpectedLabels(template, c) ==
    [k \in DOMAIN template.labels \cup {ManagedLabel, OwnerClassLabel} |->
        CASE k = ManagedLabel -> "true"
          [] k = OwnerClassLabel -> c
          [] OTHER -> template.labels[k]]

Declared(target, c, class) ==
    IF ~class.exists \/ ~class.hasSpec \/ ~class.hasResources THEN {}
    ELSE {[ns |-> target, gvr |-> PluralOf(r.kind), name |-> r.name,
           labels |-> ExpectedLabels(r, c), body |-> r.body] :
            r \in {x \in Range(class.resources) : x.isMap /\ x.kind \in Creatable}}

OwnedBy(objs, target, c) ==
    {o \in objs : o.ns = target /\ HasLabel(o.labels, OwnerClassLabel, c)}

\* the Namespace watcher has handled its last event without a failed call and
\* without the Class watcher writing to the same namespace meanwhile
NsHandledCleanly ==
    /\ th["ns"].pc = "streaming"
    /\ th["ns"].ev # NoEvent
    /\ ~th["ns"].errs
    /\ ~raced["ns"]

\* the target of that event held resources, all owned by Class c, when the
\* event was taken
HeldResourcesOf(c) ==
    /\ th["ns"].pre # {}
    /\ \A o \in th["ns"].pre : HasLabel(o.labels, OwnerClassLabel, c)

C1_Switched(c1) ==
    /\ NsHandledCleanly
    /\ th["ns"].ev.type = "MODIFIED"
    /\ th["ns"].ev.label \in ClassNames \ {c1}
    /\ th["ns"].fetched
    /\ HeldResourcesOf(c1)

\* C1: when the Namespace watcher has handled the Modify event that relabels
\* a target from Class c1, whose resources it held, to an existing Class c2
\* (no failed call, no concurrent writer), the target's managed objects are
\* exactly the objects c2 declares, labeled managed=true and owner=c2, and no
\* object of the target has owner=c1.
C1_ClassSwitchConverges ==
    \A c1 \in ClassNames :
        C1_Switched(c1) =>
            LET e == th["ns"].ev
            IN  /\ ManagedIn(objects, e.name) = Declared(e.name, e.label, th["ns"].class)
                /\ \A o \in ManagedIn(objects, e.name) :
                      HasLabel(o.labels, OwnerClassLabel, e.label)
                /\ OwnedBy(objects, e.name, c1) = {}

C1_Witness ==
    /\ C1_Switched("secure-network")
    /\ th["ns"].ev.label = "public-network"
    /\ ManagedIn(objects, th["ns"].ev.name) # {}
    /\ ManagedIn(objects, th["ns"].ev.name)
          = Declared(th["ns"].ev.name, "public-network", th["ns"].class)

C2_Unlabeled ==
    /\ NsHandledCleanly
    /\ th["ns"].ev.type = "MODIFIED"
    /\ th["ns"].ev.label = NoLabel
    /\ th["ns"].pre # {}

\* C2: when the Namespace watcher has handled the Modify event that removes
\* the class label of a target that held managed resources (no failed call,
\* no concurrent writer), no object of the target bears the managed label.
C2_LabelRemovalConverges ==
    C2_Unlabeled =>
        \A o \in objects : o.ns = th["ns"].ev.name => ManagedLabel \notin DOMAIN o.labels

C2_Witness ==
    /\ C2_Unlabeled
    /\ \E o \in th["ns"].pre : o \notin objects
    /\ ManagedIn(objects, th["ns"].ev.name) = {}

\* the Class watcher has handled its last event without a failed call and
\* without the Namespace watcher writing to a namespace of its list meanwhile
ClsHandledCleanly ==
    /\ th["cls"].pc = "streaming"
    /\ th["cls"].ev # NoEvent
    /\ ~th["cls"].errs
    /\ ~raced["cls"]

\* a step of the Class watcher while it handles an event of the given type
ClsStepOn(type) ==
    /\ th'["cls"] # th["cls"]
    /\ th["cls"].ev.type = type
    /\ th["cls"].pc \in {"listNamespaces", "getClass", "list", "delete", "create"}

\* the step in which the Class watcher lists the namespaces of its event's
\* Class lists exactly the namespaces whose class label names that Class
ClsListsBoundTargets(type) ==
    (ClsStepOn(type) /\ th["cls"].pc = "listNamespaces" /\ ~th'["cls"].errs) =>
        Range(th'["cls"].namespaces) = {n \in NamespaceNames : nsLabels[n] = th["cls"].ev.name}

\* a step of the Class watcher changes objects of listed namespaces only
ClsTouchesListedOnly(type) ==
    ClsStepOn(type) =>
        \A o \in (objects \ objects') \cup (objects' \ objects) :
            o.ns \in Range(th["cls"].namespaces)

C3_Deleted ==
    /\ ClsHandledCleanly
    /\ th["cls"].ev.type = "DELETED"

\* C3: when the Class watcher has handled the Delete event of Class C (no
\* failed call, no concurrent writer), every target that was bound to C when
\* the watcher listed them holds no object with owner=C; the list is exactly
\* the targets labeled C; and while handling the event the watcher deletes
\* only managed objects, and changes no object of a target outside the list.
C3_ScopedCleanupOnClassDelete ==
    /\ [](C3_Deleted =>
            \A n \in Range(th["cls"].namespaces) : OwnedBy(objects, n, th["cls"].ev.name) = {})
    /\ [][/\ ClsListsBoundTargets("DELETED")
          /\ ClsTouchesListedOnly("DELETED")
          /\ ClsStepOn("DELETED") =>
                /\ objects' \subseteq objects
                /\ \A o \in objects \ objects' : Managed(o)]_vars

C3_Witness ==
    /\ C3_Deleted
    /\ th["cls"].ev.name = "secure-network"
    /\ th["cls"].namespaces = <<"my-app">>
    /\ th["cls"].deletedCount > 0
    /\ OwnedBy(objects, "my-app", "secure-network") = {}
    /\ nsLabels["other"] = "public-network"
    /\ ManagedIn(objects, "other") = Declared("other", "public-network", classes["public-network"])
    /\ ManagedIn(objects, "other") # {}

\* both watchers wait on open streams with nothing queued
Quiescent ==
    /\ mainPc = "running"
    /\ \A w \in Watchers :
          /\ th[w].pc = "streaming"
          /\ stream[w].open
          /\ stream[w].queue = <<>>

\* C4: whenever both watchers have handled every event delivered to them, in
\* a run without a failed call and without a concurrent writer, every target
\* whose class label names an existing Class holds the resources that Class
\* declares - whether the label or the Class came first.
C4_CreatedInEveryEventOrder ==
    (Quiescent /\ faults = 0 /\ \A w \in Watchers : ~raced[w]) =>
        \A n \in NamespaceNames :
            (nsLabels[n] \in ClassNames /\ classes[nsLabels[n]].exists) =>
                Declared(n, nsLabels[n], classes[nsLabels[n]]) \subseteq ManagedIn(objects, n)

C5_Updated ==
    /\ ClsHandledCleanly
    /\ th["cls"].ev.type = "MODIFIED"
    /\ th["cls"].fetched

\* C5: when the Class watcher has handled the Modify event of Class C (no
\* failed call, no concurrent writer), every target labeled C when the
\* watcher listed them holds exactly the resources of the definition of C it
\* fetched; the list is exactly the targets labeled C; and while handling the
\* event the watcher changes no object of a target outside the list.
C5_ClassUpdatePropagates ==
    /\ [](C5_Updated =>
            \A n \in Range(th["cls"].namespaces) :
                ManagedIn(objects, n) = Declared(n, th["cls"].ev.name, th["cls"].class))
    /\ [][ClsListsBoundTargets("MODIFIED") /\ ClsTouchesListedOnly("MODIFIED")]_vars

C5_Witness ==
    /\ C5_Updated
    /\ th["cls"].ev.name = "public-network"
    /\ th["cls"].namespaces = <<"other">>
    /\ th["cls"].class = classes["public-network"]
    /\ Cardinality(ManagedIn(objects, "other")) = 2
    /\ ManagedIn(objects, "my-app") = Declared("my-app", "secure-network", classes["secure-network"])
    /\ ManagedIn(objects, "my-app") # {}

\* the Namespace watcher has applied Class c (no failed call, no concurrent
\* writer) to a target that already held exactly what the same definition of
\* c declares: the second of two applications in a row
C6_Reapplied ==
    /\ NsHandledCleanly
    /\ th["ns"].ev.type \in {"ADDED", "MODIFIED"}
    /\ th["ns"].ev.label \in ClassNames
    /\ th["ns"].fetched
    /\ th["ns"].pre # {}
    /\ th["ns"].pre = Declared(th["ns"].ev.name, th["ns"].ev.label, th["ns"].class)

\* C6: applying a Class to a target that holds the result of applying the
\* same Class (no store error, nothing else changing the target) leaves the
\* target with the same set of managed and of owned objects, and no
\* (kind, name) is present twice in the target.
C6_ApplyIsIdempotent ==
    C6_Reapplied =>
        LET e == th["ns"].ev
        IN  /\ ManagedIn(objects, e.name) = th["ns"].pre
            /\ OwnedBy(objects, e.name, e.label) = th["ns"].pre
            /\ \A o1, o2 \in objects :
                  (o1.ns = e.name /\ o2.ns = e.name /\ o1.gvr = o2.gvr /\ o1.name = o2.name)
                      => o1 = o2

C6_Witness ==
    /\ C6_Reapplied
    /\ th["ns"].ev.name = "my-app"
    /\ th["ns"].ev.label = "secure-network"
    /\ th["ns"].deletedCount = 2
    /\ th["ns"].successCount = 2
    /\ Cardinality(ManagedIn(objects, "my-app")) = 2
    /\ ManagedIn(objects, "my-app") = th["ns"].pre

\* the templates of applyClass's batch that it has passed, with their outcome
Attempted(t) == 1..Len(t.log)

\* C7: in every applyClass the outcomes recorded so far are those of the
\* first templates of the Class, one each and in list order; a template
\* whose kind is not in the Type Registry has the error "unknown resource
\* type" and no create was issued for it, every other template had its
\* create issued; the batch ends only when every template has been attempted,
\* whatever failed; the success count is the number of items without error;
\* and (no concurrent writer) every item created so far is still in the
\* target.
C7_BestEffortBatchCreation ==
    \A w \in Watchers :
        LET t == th[w]
        IN  /\ Len(t.log) <= Len(t.resources)
            /\ \A i \in Attempted(t) :
                  /\ t.log[i].name = t.resources[i].name
                  /\ t.log[i].kind = t.resources[i].kind
                  /\ t.resources[i].kind \notin Creatable =>
                        (t.log[i].err = "unknown resource type" /\ ~t.log[i].called)
                  /\ t.resources[i].kind \in Creatable =>
                        (t.log[i].called /\ t.log[i].err # "unknown resource type")
            /\ t.pc = "create" => Len(t.log) = t.resIdx - 1
            /\ t.pc # "create" => Len(t.log) = Len(t.resources)
            /\ t.successCount = Cardinality({i \in Attempted(t) : t.log[i].err = ""})
            /\ ~raced[w] =>
                  \A i \in Attempted(t) :
                      t.log[i].err = "" =>
                          \E o \in objects :
                              /\ o.ns = t.nsName
                              /\ o.name = t.log[i].name
                              /\ o.gvr = PluralOf(t.log[i].kind)
                              /\ HasLabel(o.labels, OwnerClassLabel, t.className)

C7_Witness ==
    LET t == th["cls"]
    IN  /\ t.pc = "streaming"
        /\ Len(t.resources) = 3
        /\ Len(t.log) = 3
        /\ t.log[1].err = ""
        /\ t.log[2].err = "unknown resource type"
        /\ t.log[3].err = ""
        /\ t.successCount = 2
        /\ \E o \in objects : o.ns = t.nsName /\ o.name = t.log[1].name /\ o.body = "ingress-v2"
        /\ \E o \in objects : o.ns = t.nsName /\ o.name = t.log[3].name

\* the watcher's goroutine has been started and its function has not returned
InLoop(w) == th[w].pc \notin {"off", "exited"}

\* C8: once the context passed to Run is cancelled, eventually neither
\* watchNamespaces nor watchClasses is in its loop any more.
C8_CancellationStopsWatchers ==
    cancelled ~> (\A w \in Watchers : ~InLoop(w))

\* C9: when the discovery call has failed and returned no resource list,
\* NewController fails: the process never gets past construction, and no
\* watcher is started.
C9_TotalDiscoveryFailureIsFatal ==
    (discovery.err /\ discovery.lists = <<>>) =>
        /\ mainPc \in {"main", "fatal"}
        /\ \A w \in Watchers : th[w].pc = "off"

\* C10: a started watcher is never in a terminal state and the process is
\* never failed by it; a watcher that is connecting, backing off after a
\* failed Watch, or past the end of a stream can always take its next step,
\* however many failures came before; and that step leads from the back-off
\* and from the end of a stream back to connecting, from connecting to the
\* open stream or to the back-off.
C10_WatchErrorsNeverFatal ==
    /\ [](mainPc \in {"running", "returned"} =>
            \A w \in Watchers :
                /\ InLoop(w)
                /\ th[w].pc \in {"connecting", "backoff", "reconnect"} => ENABLED WatcherStep(w)
                /\ (th[w].pc = "streaming" /\ ~stream[w].open) => ENABLED WatcherStep(w))
    /\ [][\A w \in Watchers :
            /\ mainPc = "running" => mainPc' \in {"running", "returned"}
            /\ th'[w].pc # th[w].pc =>
                  /\ th[w].pc = "backoff" => th'[w].pc = "connecting"
                  /\ th[w].pc = "reconnect" => th'[w].pc = "connecting"
                  /\ th[w].pc = "connecting" => th'[w].pc \in {"streaming", "backoff"}
                  /\ (th[w].pc = "streaming" /\ ~stream[w].open) => th'[w].pc = "reconnect"]_vars

\* one Watch has failed, and both watchers hold an open stream of which they
\* have taken nothing yet: the watcher whose Watch failed has backed off,
\* retried and connected
C10_Witness ==
    /\ faults = 1
    /\ ~cancelled
    /\ \A w \in Watchers :
          /\ th[w].pc = "streaming"
          /\ th[w].ev = NoEvent
          /\ stream[w].open
          /\ stream[w].queue = InitialEvents(w)
          /\ stream[w].queue # <<>>

\* the positions of a watcher at which a store call of its handler is pending
CallPcs == {"getClass", "listNamespaces", "list", "delete", "create"}

\* C11: a watcher takes an event only when no call of the previous event is
\* pending, and the event it takes is the oldest one delivered and not yet
\* taken; a step of its handler consumes nothing of the stream and keeps
\* working for the same event; the stream itself only grows at its end,
\* loses its head to the watcher, or is replaced on (dis)connection.
C11_PerStreamSequentialHandling ==
    [][\A w \in Watchers :
          /\ (th[w].pc \in CallPcs /\ th'[w] # th[w]) =>
                /\ th'[w].ev = th[w].ev
                /\ stream'[w] = stream[w]
          /\ (th[w].pc \in CallPcs /\ stream[w].open /\ stream'[w].open) =>
                \E k \in 0..1 : SubSeq(stream'[w].queue, 1, Len(stream'[w].queue) - k)
                                   = stream[w].queue
          /\ (stream[w].open /\ stream'[w].open /\ stream[w].queue # <<>>
                /\ stream'[w].queue = Tail(stream[w].queue)) =>
                /\ th[w].pc = "streaming"
                /\ th'[w].ev = Head(stream[w].queue)
                /\ th'[w].pc \in CallPcs \cup {"streaming"}]_vars

\* the Namespace watcher is creating the resources of its second event, with
\* those of its first event in place
C11_Witness ==
    /\ env = 0
    /\ nsLabels["other"] = "secure-network"
    /\ th["ns"].ev = Event("ADDED", "other", "secure-network")
    /\ th["ns"].pc = "create"
    /\ stream["ns"].queue = <<>>
    /\ Cardinality(ManagedIn(objects, "my-app")) = 2

\* the resources of the discovery response, each with the groupVersion of
\* its list; wellFormedOnly leaves out the lists whose groupVersion is not
\* "version" or "group/version"
Discovered(wellFormedOnly) ==
    UNION {{<<discovery.lists[i].groupVersion, discovery.lists[i].apiResources[j]>> :
              j \in 1..Len(discovery.lists[i].apiResources)} :
           i \in {x \in 1..Len(discovery.lists) :
                     wellFormedOnly => Len(discovery.lists[x].groupVersion) \in 1..2}}

Qualifies(r) == r.namespaced /\ {"list", "delete"} \subseteq Range(r.verbs)
GroupOf(gv) == IF Len(gv) = 2 THEN gv[1] ELSE ""
VersionOf(gv) == IF Len(gv) = 2 THEN gv[2] ELSE gv[1]
PluralEntry(p) == GVR(GroupOf(p[1]), VersionOf(p[1]), p[2].name)
KindEntry(p) == GVK(GroupOf(p[1]), VersionOf(p[1]), p[2].kind)

\* the registry has its entries for exactly the qualifying resources of ps
RegistryIsFilterOf(ps) ==
    /\ \A p \in ps :
          Qualifies(p[2]) <=>
              /\ PluralEntry(p) \in Range(registry.namespacedGVRs)
              /\ KindEntry(p) \in DOMAIN registry.gvkToGVR
    /\ \A p \in ps :
          Qualifies(p[2]) =>
              /\ KindEntry(p) \in DOMAIN registry.gvkToGVR
              /\ registry.gvkToGVR[KindEntry(p)] = PluralEntry(p)
    /\ Range(registry.namespacedGVRs) = {PluralEntry(p) : p \in {q \in ps : Qualifies(q[2])}}
    /\ DOMAIN registry.gvkToGVR = {KindEntry(p) : p \in {q \in ps : Qualifies(q[2])}}

\* C12 (as stated): once the registry is built, it has an entry for a
\* discovered resource if and only if the resource is namespace-scoped and
\* has the verbs list and delete, and the entry maps (group, version, kind) to
\* (group, version, plural name) - for every discovered resource.
C12_RegistryFilter ==
    mainPc \in {"constructed", "running"} => RegistryIsFilterOf(Discovered(FALSE))

\* C12 (amended): the same, for the discovered resources of the lists whose
\* groupVersion parses; the resources of a list whose groupVersion does not
\* parse have no entry, whatever their scope and verbs.
C12_RegistryFilterOfParsedLists ==
    mainPc \in {"constructed", "running"} =>
        /\ RegistryIsFilterOf(Discovered(TRUE))
        /\ \A p \in Discovered(FALSE) \ Discovered(TRUE) :
              \A i \in 1..Len(registry.namespacedGVRs) :
                  registry.namespacedGVRs[i].resource # p[2].name

\* a registry of one entry built from a list of two namespaced resources, of
\* which one lacks the delete verb
C12_Witness ==
    /\ mainPc = "constructed"
    /\ Len(discovery.lists) = 1
    /\ discovery.lists[1].groupVersion = NetV1
    /\ Len(discovery.lists[1].apiResources) = 2
    /\ \A j \in 1..2 : discovery.lists[1].apiResources[j].namespaced
    /\ discovery.lists[1].apiResources[1].verbs = <<"list">>
    /\ Len(registry.namespacedGVRs) = 1
    /\ DOMAIN registry.gvkToGVR = {GVK("networking.k8s.io", "v1", "NetworkPolicy")}

\* the Class the watcher has fetched lacks spec or spec.resources
Malformed(class) == class.exists /\ (~class.hasSpec \/ ~class.hasResources)

\* the targets on which the watcher's current event has finished an applyClass
Applied(t) ==
    IF t.loop = "none"
    THEN IF t.pc = "streaming" /\ t.fetched THEN {t.nsName} ELSE {}
    ELSE {t.namespaces[i] : i \in {j \in 1..Len(t.namespaces) : j < t.nsIdx}}

\* C13: while a watcher applies a Class without spec or without
\* spec.resources, it never reaches a create and has attempted no template;
\* the handling of a target ends with an error; and every target on which that apply has
\* finished (no store fault and no cancellation in the run, no concurrent
\* writer) holds no managed object.
C13_MalformedClassAbortsAfterPurge ==
    \A w \in Watchers :
        (th[w].fetched /\ Malformed(th[w].class)) =>
            /\ th[w].pc # "create"
            /\ th[w].log = <<>>
            /\ th[w].successCount = 0
            /\ (th[w].pc = "streaming" /\ Applied(th[w]) # {}) => th[w].errs
            /\ (faults = 0 /\ ~cancelled /\ ~raced[w]) =>
                  \A n \in Applied(th[w]) : ManagedIn(objects, n) = {}

\* the Class watcher has applied secure-network, now without spec, to my-app,
\* which held the two resources of the earlier definition
C13_Witness ==
    /\ th["cls"].pc = "streaming"
    /\ th["cls"].ev = Event("MODIFIED", "secure-network", "")
    /\ th["cls"].fetched
    /\ ~th["cls"].class.hasSpec
    /\ th["cls"].namespaces = <<"my-app">>
    /\ th["cls"].deletedCount = 2
    /\ ManagedIn(objects, "my-app") = {}
    /\ ManagedIn(objects, "other") # {}

\* every target labeled with an existing Class holds exactly what the Class
\* declares, owned by it; every target without the label holds nothing managed
Converged ==
    \A n \in NamespaceNames :
        /\ (nsLabels[n] \in ClassNames /\ classes[nsLabels[n]].exists) =>
              /\ ManagedIn(objects, n) = Declared(n, nsLabels[n], classes[nsLabels[n]])
              /\ \A o \in ManagedIn(objects, n) : HasLabel(o.labels, OwnerClassLabel, nsLabels[n])
        /\ nsLabels[n] = NoLabel => ManagedIn(objects, n) = {}

\* C14: in a cluster whose labels and Classes no longer change and whose
\* calls succeed, whatever managed objects the targets held, the delivery of
\* the Namespace stream (an Add for every target) leads to a state, kept from
\* then on, in which every target labeled with an existing Class holds
\* exactly that Class's resources with owner = that Class, and every
\* unlabeled target holds no managed object.
C14_LevelTriggeredConvergence == <>[]Converged

\* both Add events are handled, the second one purged a stale object, and
\* my-app holds the two resources of secure-network in place of stale ones
C14_Witness ==
    /\ Converged
    /\ th["ns"].pc = "streaming"
    /\ stream["ns"].open
    /\ stream["ns"].queue = <<>>
    /\ th["ns"].ev.name = "other"
    /\ th["ns"].ev.label = NoLabel
    /\ th["ns"].deletedCount = 1
    /\ nsLabels["my-app"] = "secure-network"
    /\ Cardinality(ManagedIn(objects, "my-app")) = 2
    /\ StaleObjects \cap objects = {}

\* C15: a step of cleanupResources(target, ownerFilter) changes the store
\* only by deleting objects that are in the target namespace, bear
\* managed=true and, when ownerFilter is not empty, bear owner=ownerFilter;
\* its list steps change nothing.
C15_CleanupFrame ==
    [][\A w \in Watchers :
          (th[w].pc \in {"list", "delete"} /\ th'[w] # th[w]) =>
              /\ objects' \subseteq objects
              /\ \A o \in objects \ objects' :
                    /\ o.ns = th[w].nsName
                    /\ Managed(o)
                    /\ th[w].filter # "" => HasLabel(o.labels, OwnerClassLabel, th[w].filter)]_vars

\* the watcher is inside applyClass
InApply(t) == t.ret = "applyClass" /\ t.pc \in {"list", "delete", "create"}

\* C16: inside applyClass the cleanup is the unfiltered one and no template
\* has been attempted while it runs; when a create is pending the cleanup has
\* scanned every registered type; and with no failed call and no concurrent
\* writer the managed objects of the target are then exactly those this
\* applyClass has created - none when the first create is pending, whatever
\* Class owned the objects the target held before.
C16_PurgePrecedesCreate ==
    \A w \in Watchers :
        LET t == th[w]
        IN  InApply(t) =>
              /\ t.filter = ""
              /\ t.pc \in {"list", "delete"} => (t.log = <<>> /\ t.resIdx = 0)
              /\ t.pc = "create" =>
                    /\ t.gvrIdx > Len(registry.namespacedGVRs)
                    /\ t.items = <<>>
                    /\ (~t.errs /\ ~raced[w]) =>
                          /\ Cardinality(ManagedIn(objects, t.nsName)) = Len(t.log)
                          /\ \A o \in ManagedIn(objects, t.nsName) :
                                /\ HasLabel(o.labels, OwnerClassLabel, t.className)
                                /\ \E i \in 1..Len(t.log) : t.log[i].name = o.name

\* the first create of public-network is pending in my-app, which held the
\* two resources of secure-network when the event was taken
C16_Witness ==
    /\ th["ns"].pc = "create"
    /\ th["ns"].resIdx = 1
    /\ th["ns"].className = "public-network"
    /\ ~th["ns"].errs
    /\ ~raced["ns"]
    /\ Cardinality(th["ns"].pre) = 2
    /\ \A o \in th["ns"].pre : HasLabel(o.labels, OwnerClassLabel, "secure-network")
    /\ th["ns"].deletedCount = 2
    /\ ManagedIn(objects, th["ns"].nsName) = {}

\* the templates of every definition the Classes are given
AllTemplates ==
    {r \in UNION {Range(d.resources) : d \in UNION {ClassDefs(c) : c \in ClassNames}} : r.isMap}

\* the object the engine makes of template r in target n for Class c
MadeOf(r, n, c) ==
    [ns |-> n, gvr |-> PluralOf(r.kind), name |-> r.name,
     labels |-> ExpectedLabels(r, c), body |-> r.body]

\* C17: a create step puts into the store one object, made of the template
\* at hand: in the namespace being reconciled, with managed=true, with owner
\* = the Class being applied, and with every other label of the template
\* (the template's own values for the two reserved keys are replaced); and in
\* every state every object other than the unmanaged defaults is such an
\* object of some template and of the Class its owner label names.
C17_OwnershipLabeling ==
    /\ [][\A w \in Watchers :
            (th[w].pc = "create" /\ th'[w] # th[w] /\ objects' # objects) =>
                LET t == th[w]
                    made == MadeOf(t.resources[t.resIdx], t.nsName, t.className)
                IN  /\ objects' = objects \cup {made}
                    /\ made \notin objects
                    /\ made.ns = t.nsName
                    /\ HasLabel(made.labels, ManagedLabel, "true")
                    /\ HasLabel(made.labels, OwnerClassLabel, t.className)
                    /\ \A k \in DOMAIN t.resources[t.resIdx].labels \ {ManagedLabel, OwnerClassLabel} :
                          HasLabel(made.labels, k, t.resources[t.resIdx].labels[k])]_vars
    /\ [](\A o \in objects \ DefaultObjects :
            \E r \in AllTemplates, c \in ClassNames : o = MadeOf(r, o.ns, c))

\* the Namespace watcher has created app-service-account, whose template
\* carries team=payments, managed=false and owner=somebody-else
C17_Witness ==
    /\ env = 0
    /\ nsLabels["other"] = "secure-network"
    /\ th["ns"].nsName = "my-app"
    /\ Len(th["ns"].log) = 2
    /\ th["ns"].log[2].name = "app-service-account"
    /\ th["ns"].log[2].err = ""
    /\ HasLabel(th["ns"].resources[2].labels, ManagedLabel, "false")
    /\ HasLabel(th["ns"].resources[2].labels, OwnerClassLabel, "somebody-else")
    /\ \E o \in objects :
          /\ o.ns = "my-app"
          /\ o.name = "app-service-account"
          /\ DOMAIN o.labels = {"team", ManagedLabel, OwnerClassLabel}
          /\ o.labels["team"] = "payments"
          /\ o.labels[ManagedLabel] = "true"
          /\ o.labels[OwnerClassLabel] = "secure-network"

\* the scan of w has registered resource types left after the current one
MoreTypes(t) == t.gvrIdx < Len(registry.namespacedGVRs)

\* C18: a List step of cleanupResources, failed or not, is followed by the
\* deletes of what it listed or, when types are left, by the List of the next
\* registered type, and it lists every object of its type that matches the
\* selector; a Delete step, failed or not, is followed by the Delete of the
\* next listed object or, when types are left, by the List of the next type;
\* and the count grows by one exactly when the step removed an object.
C18_CleanupIsBestEffort ==
    [][\A w \in Watchers :
          LET t == th[w]
              u == th'[w]
          IN  /\ (t.pc = "list" /\ u # t) =>
                    /\ MoreTypes(t) =>
                          \/ u.pc = "delete" /\ u.gvrIdx = t.gvrIdx
                          \/ u.pc = "list" /\ u.gvrIdx = t.gvrIdx + 1
                    /\ (MoreTypes(t) \/ u.pc = "delete") => u.deletedCount = t.deletedCount
                    /\ u.pc = "delete" =>
                          Range(u.items) =
                              {o.name : o \in {x \in objects :
                                  /\ x.ns = t.nsName
                                  /\ x.gvr = registry.namespacedGVRs[t.gvrIdx]
                                  /\ Managed(x)
                                  /\ t.filter # "" => HasLabel(x.labels, OwnerClassLabel, t.filter)}}
                    /\ objects' = objects
              /\ (t.pc = "delete" /\ u # t) =>
                    /\ Len(t.items) > 1 =>
                          (u.pc = "delete" /\ u.gvrIdx = t.gvrIdx /\ u.items = Tail(t.items))
                    /\ (Len(t.items) = 1 /\ MoreTypes(t)) =>
                          (u.pc = "list" /\ u.gvrIdx = t.gvrIdx + 1)
                    /\ (Len(t.items) > 1 \/ MoreTypes(t)) =>
                          u.deletedCount = t.deletedCount + (IF objects' # objects THEN 1 ELSE 0)]_vars

\* the List (or the Delete) of the first type failed: its object is still
\* there, the scan went on, deleted the object of the second type and
\* counted one
C18_Witness ==
    /\ th["ns"].pc = "create"
    /\ th["ns"].nsName = "my-app"
    /\ th["ns"].errs
    /\ faults = 1
    /\ Cardinality(th["ns"].pre) = 2
    /\ th["ns"].deletedCount = 1
    /\ \E o \in th["ns"].pre \cap objects : o.name = "app-service-account"
    /\ \A o \in objects : ~(o.ns = "my-app" /\ o.name = "deny-all-ingress")

\* the owned sets a target can hold after an undisturbed reconciliation
CleanResults(n) ==
    {{}} \cup UNION {{Declared(n, c, d) : d \in ClassDefs(c)} : c \in ClassNames}

\* C19: when the Namespace watcher has handled an Add or Modify event of a
\* target labeled with an existing Class, without a failed call and without
\* the Class watcher writing to the target meanwhile, the target holds
\* exactly the resources the fetched Class declares - whatever it held when
\* the event was taken, the leftovers of an interleaved reconciliation
\* included.
C19_SelfHealingAfterRace ==
    (/\ NsHandledCleanly
     /\ th["ns"].ev.type \in {"ADDED", "MODIFIED"}
     /\ th["ns"].ev.label \in ClassNames
     /\ th["ns"].fetched) =>
        /\ ManagedIn(objects, th["ns"].ev.name)
              = Declared(th["ns"].ev.name, th["ns"].ev.label, th["ns"].class)
        /\ \A o \in ManagedIn(objects, th["ns"].ev.name) :
              HasLabel(o.labels, OwnerClassLabel, th["ns"].ev.label)

\* no call has failed, the target held what no undisturbed reconciliation
\* leaves, and it holds the resources of its Class after the event
C19_Witness ==
    /\ faults = 0
    /\ NsHandledCleanly
    /\ th["ns"].ev.type = "MODIFIED"
    /\ th["ns"].ev.label \in ClassNames
    /\ th["ns"].fetched
    /\ th["ns"].pre \notin CleanResults(th["ns"].ev.name)
    /\ ManagedIn(objects, th["ns"].ev.name)
          = Declared(th["ns"].ev.name, th["ns"].ev.label, th["ns"].class)
    /\ ManagedIn(objects, th["ns"].ev.name) # {}

\* the objects with the kind and the name of the template a watcher is at
Standing(t) ==
    {o \in objects : /\ o.ns = t.nsName
                     /\ o.name = t.resources[t.resIdx].name
                     /\ o.gvr = PluralOf(t.resources[t.resIdx].kind)}

\* the watcher has issued the create of the template it was at
Created(w) == th[w].pc = "create" /\ Len(th'[w].log) = Len(th[w].log) + 1

\* C20: no step alters an object in place - an object that stands before and
\* after a step under the same namespace, type and name has the same labels
\* and the same content - and a create issued while an object with the kind
\* and the name of the template stands fails for that item and leaves the
\* store as it was, the standing object with its old content and owner label.
C20_NoInPlaceMutation ==
    [][/\ \A o \in objects, p \in objects' :
             (o.ns = p.ns /\ o.gvr = p.gvr /\ o.name = p.name) => o = p
       /\ \A w \in Watchers :
             (Created(w) /\ Standing(th[w]) # {}) =>
                 /\ objects' = objects
                 /\ th'[w].log[Len(th'[w].log)].err # ""
                 /\ th'[w].errs
                 /\ th'[w].successCount = th[w].successCount]_vars

\* after a failed call, the create of a template has been refused because an
\* object of another owner stands under its name, and that object is still
\* there
C20_Witness ==
    /\ faults = 1
    /\ th["ns"].log # <<>>
    /\ LET e == th["ns"].log[Len(th["ns"].log)]
       IN  /\ e.err = "already exists"
           /\ \E o \in objects :
                 /\ o.ns = th["ns"].nsName
                 /\ o.name = e.name
                 /\ o.gvr = PluralOf(e.kind)
                 /\ OwnerClassLabel \in DOMAIN o.labels
                 /\ o.labels[OwnerClassLabel] # th["ns"].className
                 /\ o \in th["ns"].pre

\* C21: whenever both watchers are idle with nothing left to deliver, in a
\* run without a failed call, every managed object of a target whose class
\* label is empty or names an existing Class carries that label as its owner
\* label - for every interleaving of the two watchers.
C21_QuiescentOwnership ==
    (Quiescent /\ faults = 0) =>
        \A n \in NamespaceNames :
            (nsLabels[n] = NoLabel \/ (nsLabels[n] \in ClassNames /\ classes[nsLabels[n]].exists)) =>
                \A o \in ManagedIn(objects, n) :
                    HasLabel(o.labels, OwnerClassLabel, nsLabels[n])

\* the step in which w's fetch of the Class fails: the Class is absent or the
\* call is refused
FetchFails(w) ==
    /\ th[w].pc = "getClass"
    /\ th'[w] # th[w]
    /\ (classes[th[w].className] = Absent \/ faults' # faults \/ cancelled)

\* the step in which the namespace list of updateNamespacesWithClass fails
ListFails(w) ==
    /\ th[w].pc = "listNamespaces"
    /\ th[w].loop = "update"
    /\ th'[w] # th[w]
    /\ (faults' # faults \/ cancelled)

\* the Namespace watcher is done with an Add or Modify event of a labeled
\* target whose Class it could not fetch
NsGaveUp ==
    /\ th["ns"].pc = "streaming"
    /\ th["ns"].ev.type \in {"ADDED", "MODIFIED"}
    /\ th["ns"].ev.label # NoLabel
    /\ ~th["ns"].fetched

\* C22: a failed fetch of the Class (the Class is absent, or the call fails)
\* in handleNamespace or updateNamespacesWithClass, and a failed namespace
\* list in updateNamespacesWithClass, end the handling of the event with an
\* error: the step changes no object and the handler has issued no list of a
\* cleanup, no delete and no create; and a target whose event the Namespace
\* watcher has given up that way holds the managed objects it held when the
\* event was taken, unless the Class watcher wrote to it meanwhile.
C22_UnfetchableClassLeavesTarget ==
    [][/\ \A w \in Watchers :
             (FetchFails(w) \/ ListFails(w)) =>
                 /\ objects' = objects
                 /\ th'[w].pc = "streaming"
                 /\ th'[w].errs
                 /\ th'[w].log = <<>>
                 /\ th'[w].deletedCount = 0
                 /\ th'[w].gvrIdx = 0
       /\ (NsGaveUp /\ ~raced["ns"])' =>
             (ManagedIn(objects, th["ns"].ev.name) = th["ns"].pre)']_vars

\* a target labeled with a Class that does not exist has been handled and
\* still holds the resources of the Class it was bound to before
C22_Witness ==
    /\ NsGaveUp
    /\ ~raced["ns"]
    /\ faults = 0
    /\ th["ns"].ev.type = "MODIFIED"
    /\ classes[th["ns"].ev.label] = Absent
    /\ th["ns"].pre # {}
    /\ ManagedIn(objects, th["ns"].ev.name) = th["ns"].pre
    /\ \A o \in th["ns"].pre :
          /\ OwnerClassLabel \in DOMAIN o.labels
          /\ o.labels[OwnerClassLabel] # th["ns"].ev.label

\* the resource types cleanupResources scans
Scanned == {registry.namespacedGVRs[i] : i \in 1..Len(registry.namespacedGVRs)}

\* the resource types createResource can resolve a template kind to
Resolved == {registry.gvkToGVR[k] : k \in DOMAIN registry.gvkToGVR}

\* C23: after startup every resource type createResource can resolve a
\* template kind to is among the types cleanupResources scans, every object
\* a step puts into the store is of a scanned type, and no step changes the
\* registry.
C23_CreatableIsPurgeable ==
    [][/\ mainPc' # "main" =>
             /\ Resolved' \subseteq Scanned'
             /\ \A o \in objects' \ objects : o.gvr \in Scanned'
       /\ mainPc # "main" => registry' = registry]_vars

\* the controller runs with a type it can create and purge, while discovery
\* also listed a namespaced type it left out of both for want of a verb
C23_Witness ==
    /\ mainPc = "running"
    /\ Resolved # {}
    /\ Resolved \subseteq Scanned
    /\ \E i \in 1..Len(discovery.lists) :
          /\ ParseGroupVersion(discovery.lists[i].groupVersion).ok
          /\ \E j \in 1..Len(discovery.lists[i].apiResources) :
                LET r == discovery.lists[i].apiResources[j]
                    gv == ParseGroupVersion(discovery.lists[i].groupVersion)
                IN  /\ r.namespaced
                    /\ ~contains(r.verbs, "delete")
                    /\ GVR(gv.group, gv.version, r.name) \notin Scanned \cup Resolved

====
